---- MODULE Spec2Model ----
(***************************************************************************)
(* State-machine model of server.js: the survey backend's four POST        *)
(* handlers, its five SQLite tables and the in-memory conversation store.  *)
(*                                                                         *)
(* The three synchronous handlers (/demographics, /survey-response,        *)
(* /save-draft) run to completion in one step.  The /chat handler is an    *)
(* async function with two awaits, so it runs in three steps, and steps of *)
(* other requests may happen between them:                                 *)
(*    Chat         lines 171-197  up to the first await (fetch issued)     *)
(*    ChatFetch    line  189      the fetch promise settles                *)
(*    ChatJson     lines 199-221  the body promise settles, to the answer  *)
(***************************************************************************)
EXTENDS Integers, Sequences, FiniteSets, TLC

\* ------------------------------------------------------------------ bounds

\* Chat requests accepted in a run of SpecChat.
MaxChats == 2
\* Chat requests accepted in a run of SpecTimed.
MaxTimedChats == 1
\* Rows and participants accepted in a run of SpecForms.
MaxForms == 2
\* Accepted requests of any kind in a run of Spec (all four endpoints).
MaxLoad == 1
\* Largest reading of the wall clock.
MaxClock == 1

\* ------------------------------------------------------------------ values

\* The JavaScript value undefined (a key absent from the JSON body).
Undefined == "<undefined>"
\* SQL NULL.
Null == "<null>"

\* !v for the values a JSON string field takes here: absent or empty.
Falsy(v) == v = Undefined \/ v = ""

\* `${v}` in a template literal.
Str(v) == IF v = Undefined THEN "undefined" ELSE v

\* better-sqlite3 binds undefined and null as NULL, strings as themselves.
Bind(v) == IF v = Undefined THEN Null ELSE v

Users == {"p1", "p2"}
Scenarios == {"s1", "s2"}
Keys == Users \X Scenarios

\* ------------------------------------------------------------------ state

VARIABLES
    conversations,     \* [Keys -> Seq(turn)]; <<>> is "no conversation"
    participants,      \* table participants: set of rows (primary key)
    messages,          \* table messages: rows in AUTOINCREMENT order
    survey_responses,  \* table survey_responses, in AUTOINCREMENT order
    demographics,      \* table demographics: set of rows (primary key)
    final_drafts,      \* table final_drafts, in AUTOINCREMENT order
    reqs,              \* the accepted /chat requests, in arrival order
    now,               \* the wall clock read by new Date()
    last,              \* the request handled by the latest step and its answer
    latest             \* per participant, the latest accepted /demographics
                       \* body and whether it replaced an earlier one

vars == <<conversations, participants, messages, survey_responses,
          demographics, final_drafts, reqs, now, last, latest>>

tables == <<participants, messages, survey_responses, demographics, final_drafts>>

\* Number of accepted requests that left something in the state.
Load == Len(reqs) + Len(survey_responses) + Len(final_drafts) + Cardinality(demographics)

\* The names among fields that the request body b lacks or holds empty.
Absent(b, fields) == {f \in fields : Falsy(b[f])}

\* What a step records in last: the endpoint, whether the request came
\* without one of the required fields, and the answer (status 0: none yet).
NoRequest == [ep |-> "none", lacking |-> FALSE, status |-> 0, body |-> <<>>]

Answer(ep, absent, status, body) ==
    [ep |-> ep, lacking |-> absent # {}, status |-> status, body |-> body]

\* ------------------------------------------------------- conversation store

\* Variant: the seed carries the wrong role.
SystemTurnWrongRole(scenario) ==
    [role |-> "assistant", content |-> <<"system-template", scenario>>, ex |-> 0]

\* The seeded turn; ex is the number of the exchange that appended a turn
\* (0: none), kept so that a turn can be told apart from an equal one.
SystemTurn(scenario) ==
    [role |-> "system", content |-> <<"system-template", scenario>>, ex |-> 0]

initializeConversation(convs, userId, scenario) ==
    [convs EXCEPT ![<<userId, scenario>>] = <<SystemTurn(scenario)>>]

\* Variant: the conversation is initialized on every request.
EnsureAlwaysInit(convs, userId, scenario) ==
    initializeConversation(convs, userId, scenario)

\* if (!conversations[userId] || !conversations[userId][scenario]) initialize
Ensure(convs, userId, scenario) ==
    IF convs[<<userId, scenario>>] = <<>>
    THEN initializeConversation(convs, userId, scenario)
    ELSE convs

UserTurn(b, ex) ==
    [role |-> "user",
     content |-> <<"Draft:", Str(b.draft), "User request:", b.message>>,
     ex |-> ex]

AssistantTurn(botReply, ex) ==
    [role |-> "assistant", content |-> <<botReply>>, ex |-> ex]

\* Variant: the user turn is not appended before the first await.
PushUserDropped(convs, b, ex) == convs

\* convo.push({role: "user", ...})
PushUser(convs, b, ex) ==
    [convs EXCEPT ![<<b.userId, b.scenario>>] = Append(@, UserTurn(b, ex))]

\* convo.push({role: "assistant", content: botReply})
PushAssistant(convs, r, botReply, ex) ==
    [convs EXCEPT ![<<r.userId, r.scenario>>] = Append(@, AssistantTurn(botReply, ex))]

\* ------------------------------------------------------------------ /chat

\* Request bodies: the well-formed ones, and the sample with each required
\* field absent and with it empty.
ChatSample == [userId |-> "p1", message |-> "m1", scenario |-> "s1", draft |-> "d1"]

ChatValid ==
    [userId : Users, message : {"m1"}, scenario : Scenarios, draft : {"d1"}]

ChatBodies ==
    ChatValid
        \cup {[ChatSample EXCEPT !.userId = v] : v \in {Undefined, ""}}
        \cup {[ChatSample EXCEPT !.message = v] : v \in {Undefined, ""}}
        \cup {[ChatSample EXCEPT !.scenario = v] : v \in {Undefined, ""}}

ChatRequired(b) == Absent(b, {"userId", "message", "scenario"})

\* if (!userId || !message || !scenario)
ChatMissing(b) == Falsy(b.userId) \/ Falsy(b.message) \/ Falsy(b.scenario)

\* What the gateway's answer can be once the fetch has resolved: a body that
\* is not JSON, JSON without message, or JSON with message, whose content is
\* a string or absent.
Replies == {"r1"}
GatewayData ==
    {<<"invalid-json", Undefined>>, <<"no-message", Undefined>>}
        \cup {<<"message", c>> : c \in Replies \cup {Undefined}}

\* Outcome of the two INSERTs: both run, the first throws (a store error), the
\* second throws (a store error, or a reply content SQLite cannot bind).
DbOutcomes == {"ok", "fail-first", "fail-second"}

MessageRow(r, role, content, timestamp, ex) ==
    [participant_id |-> r.userId, scenario |-> r.scenario, role |-> role,
     content |-> content, timestamp |-> timestamp, ex |-> ex]

\* Variant: the timestamp is the time at which the request arrived.
TimestampAtStart(r, clock) == r.tStart

\* const timestamp = new Date().toISOString(), read after both awaits
Timestamp(r, clock) == clock

\* Variant: the user row is not written.
AuditRowsAssistantOnly(r, botReply, timestamp, ex) ==
    <<MessageRow(r, "assistant", <<Bind(botReply)>>, timestamp, ex)>>

\* Variant: the two INSERTs in the other order.
AuditRowsAssistantFirst(r, botReply, timestamp, ex) ==
    <<MessageRow(r, "assistant", <<Bind(botReply)>>, timestamp, ex),
      MessageRow(r, "user", <<"Draft:", Str(r.draft), "Request:", r.message>>, timestamp, ex)>>

\* The two rows of lines 206-214, in the order they are inserted.
AuditRows(r, botReply, timestamp, ex) ==
    <<MessageRow(r, "user", <<"Draft:", Str(r.draft), "Request:", r.message>>, timestamp, ex),
      MessageRow(r, "assistant", <<Bind(botReply)>>, timestamp, ex)>>

\* The rows that reach the table under each outcome of the INSERTs.
Inserted(rows, db) ==
    CASE db = "ok" -> rows
      [] db = "fail-first" -> <<>>
      [] db = "fail-second" -> <<rows[1]>>

ChatFailed == <<"error", "Chat failed">>

\* Lines 171-197: validation, ensure, the user turn, the fetch is issued.
\* The record added to reqs holds the body, the handler's position (pc), its
\* answer (status, body), what the gateway delivered, the clock readings at
\* arrival and at the fetch's return, and whether an INSERT threw.
Chat(lim, b) ==
    /\ IF ChatMissing(b)
       THEN /\ last' = Answer("chat", ChatRequired(b), 400,
                              <<"error", "Missing userId, message, or scenario">>)
            /\ UNCHANGED <<conversations, reqs>>
       ELSE /\ Load < lim
            /\ conversations' =
                   PushUser(Ensure(conversations, b.userId, b.scenario), b, Len(reqs) + 1)
            /\ reqs' = Append(reqs,
                   [userId |-> b.userId, scenario |-> b.scenario,
                    message |-> b.message, draft |-> b.draft,
                    pc |-> "await-fetch", status |-> 0, body |-> <<>>,
                    gateway |-> "pending", tStart |-> now, tReturned |-> 0,
                    dbError |-> FALSE])
            /\ last' = Answer("chat", ChatRequired(b), 0, <<>>)
    /\ UNCHANGED <<tables, now, latest>>

\* Line 189: the fetch settles.  A rejection (network error) goes to the catch.
ChatFetch(i, ok) ==
    /\ reqs[i].pc = "await-fetch"
    /\ reqs' = IF ok
               THEN [reqs EXCEPT ![i].pc = "await-json", ![i].tReturned = now]
               ELSE [reqs EXCEPT ![i].pc = "done", ![i].gateway = "failed",
                                 ![i].status = 500, ![i].body = ChatFailed]
    /\ last' = NoRequest
    /\ UNCHANGED <<conversations, tables, now, latest>>

\* Lines 199-221: the body settles; reply, assistant turn, audit rows, answer.
ChatJson(i, data, db) ==
    /\ reqs[i].pc = "await-json"
    /\ last' = NoRequest
    /\ IF data[1] # "message"
       THEN \* response.json() rejects, or data.message.content throws
            /\ db = "ok"
            /\ reqs' = [reqs EXCEPT ![i].pc = "done", ![i].gateway = "failed",
                                    ![i].status = 500, ![i].body = ChatFailed]
            /\ UNCHANGED <<conversations, messages>>
       ELSE LET botReply == data[2]
                timestamp == Timestamp(reqs[i], now)
                rows == AuditRows(reqs[i], botReply, timestamp, i)
                got == IF botReply = Undefined THEN "no-content" ELSE "reply"
            IN  /\ conversations' = PushAssistant(conversations, reqs[i], botReply, i)
                /\ messages' = messages \o Inserted(rows, db)
                /\ reqs' = IF db = "ok"
                           THEN [reqs EXCEPT ![i].pc = "done", ![i].gateway = got,
                                             ![i].status = 200,
                                             ![i].body = <<"reply", botReply>>]
                           ELSE [reqs EXCEPT ![i].pc = "done", ![i].gateway = got,
                                             ![i].status = 500,
                                             ![i].body = ChatFailed,
                                             ![i].dbError = TRUE]
    /\ UNCHANGED <<participants, survey_responses, demographics, final_drafts,
                   now, latest>>

\* ----------------------------------------------------------- /demographics

\* Request bodies: the well-formed ones (attributes may be absent), and the
\* sample with participant_id absent and with it empty.
DemographicsValid ==
    [participant_id : Users,
     native_language : {"es", Undefined},
     english_proficiency : {"4", "5"},
     years_in_us : {"2"},
     ai_usage_frequency : {"3"}]

DemographicsSample ==
    [participant_id |-> "p1", native_language |-> "es", english_proficiency |-> "4",
     years_in_us |-> "2", ai_usage_frequency |-> "3"]

DemographicsBodies ==
    DemographicsValid
        \cup {[DemographicsSample EXCEPT !.participant_id = v] : v \in {Undefined, ""}}

DemographicsRequired(b) == Absent(b, {"participant_id"})

\* Variant: only an absent participant_id is rejected, not an empty one.
DemographicsMissingOnlyAbsent(b) == b.participant_id = Undefined

\* if (!participant_id)
DemographicsMissing(b) == Falsy(b.participant_id)

DemographicsRow(b) ==
    [participant_id |-> b.participant_id,
     native_language |-> Bind(b.native_language),
     english_proficiency |-> Bind(b.english_proficiency),
     years_in_us |-> Bind(b.years_in_us),
     ai_usage_frequency |-> Bind(b.ai_usage_frequency)]

\* An upsert that keeps the stored value of an attribute the new row lacks.
InsertOrMerge(table, row) ==
    LET old == {x \in table : x.participant_id = row.participant_id}
        Keep(f) == IF row[f] = Null /\ old # {}
                   THEN (CHOOSE x \in old : TRUE)[f] ELSE row[f]
    IN  (table \ old)
            \cup {[participant_id |-> row.participant_id,
                   native_language |-> Keep("native_language"),
                   english_proficiency |-> Keep("english_proficiency"),
                   years_in_us |-> Keep("years_in_us"),
                   ai_usage_frequency |-> Keep("ai_usage_frequency")]}

\* INSERT OR REPLACE: the row with the same primary key goes, the new one comes.
InsertOrReplace(table, row) ==
    {x \in table : x.participant_id # row.participant_id} \cup {row}

\* Lines 100-126.  A resubmission is always possible; a new participant only
\* below the bound.
Demographics(lim, b) ==
    /\ IF DemographicsMissing(b)
       THEN /\ last' = Answer("demographics", DemographicsRequired(b), 400,
                              <<"error", "Missing participant_id">>)
            /\ UNCHANGED <<demographics, latest>>
       ELSE /\ \/ Load < lim
               \/ \E x \in demographics : x.participant_id = b.participant_id
            /\ demographics' = InsertOrReplace(demographics, DemographicsRow(b))
            /\ latest' = [p \in Users |->
                              IF p = b.participant_id
                              THEN {[body |-> b, replaced |-> latest[p] # {}]}
                              ELSE latest[p]]
            /\ last' = Answer("demographics", DemographicsRequired(b), 200,
                              <<"status", "saved">>)
    /\ UNCHANGED <<conversations, participants, messages, survey_responses,
                   final_drafts, reqs, now>>

\* -------------------------------------------------------- /survey-response

\* used_ai_behavioral is a JSON boolean: "true", "false", or absent.
SurveyValid ==
    [participant_id : Users,
     scenario : {"s1"},
     draft_text : {"d1"},
     used_ai_self_report : {"yes"},
     used_ai_behavioral : {"true", "false", Undefined},
     perceived_risk : {"3"},
     authenticity : {"4"}]

SurveySample ==
    [participant_id |-> "p1", scenario |-> "s1", draft_text |-> "d1",
     used_ai_self_report |-> "yes", used_ai_behavioral |-> "true",
     perceived_risk |-> "3", authenticity |-> "4"]

SurveyBodies ==
    SurveyValid
        \cup {[SurveySample EXCEPT !.participant_id = v] : v \in {Undefined, ""}}
        \cup {[SurveySample EXCEPT !.scenario = v] : v \in {Undefined, ""}}

SurveyRequired(b) == Absent(b, {"participant_id", "scenario"})

\* if (!participant_id || !scenario)
SurveyMissing(b) == Falsy(b.participant_id) \/ Falsy(b.scenario)

\* used_ai_behavioral ? 1 : 0
Flag(v) == IF v = "true" THEN 1 ELSE 0

SurveyRow(b, timestamp) ==
    [participant_id |-> b.participant_id, scenario |-> b.scenario,
     draft_text |-> Bind(b.draft_text),
     used_ai_self_report |-> Bind(b.used_ai_self_report),
     used_ai_behavioral |-> Flag(b.used_ai_behavioral),
     perceived_risk |-> Bind(b.perceived_risk),
     authenticity |-> Bind(b.authenticity),
     timestamp |-> timestamp]

\* Lines 132-164.
SurveyResponse(lim, b) ==
    /\ IF SurveyMissing(b)
       THEN /\ last' = Answer("survey-response", SurveyRequired(b), 400,
                              <<"error", "Missing required fields">>)
            /\ UNCHANGED survey_responses
       ELSE /\ Load < lim
            /\ survey_responses' = Append(survey_responses, SurveyRow(b, now))
            /\ last' = Answer("survey-response", SurveyRequired(b), 200,
                              <<"status", "saved">>)
    /\ UNCHANGED <<conversations, participants, messages, demographics,
                   final_drafts, reqs, now, latest>>

\* ------------------------------------------------------------- /save-draft

DraftValid ==
    [participant_id : Users, scenario : {"s1"}, draft_text : {"d1"}]

DraftSample == [participant_id |-> "p1", scenario |-> "s1", draft_text |-> "d1"]

DraftBodies ==
    DraftValid
        \cup {[DraftSample EXCEPT !.participant_id = v] : v \in {Undefined, ""}}
        \cup {[DraftSample EXCEPT !.scenario = v] : v \in {Undefined, ""}}
        \cup {[DraftSample EXCEPT !.draft_text = v] : v \in {Undefined, ""}}

DraftRequired(b) == Absent(b, {"participant_id", "scenario", "draft_text"})

\* if (!participant_id || !scenario || !draft_text)
DraftMissing(b) == Falsy(b.participant_id) \/ Falsy(b.scenario) \/ Falsy(b.draft_text)

DraftRow(b, timestamp) ==
    [participant_id |-> b.participant_id, scenario |-> b.scenario,
     draft_text |-> b.draft_text, timestamp |-> timestamp]

\* Lines 228-253; stored is FALSE when the INSERT throws.
SaveDraft(lim, b, stored) ==
    /\ IF DraftMissing(b)
       THEN /\ stored
            /\ last' = Answer("save-draft", DraftRequired(b), 400,
                              <<"error", "Missing required fields">>)
            /\ UNCHANGED final_drafts
       ELSE IF stored
            THEN /\ Load < lim
                 /\ final_drafts' = Append(final_drafts, DraftRow(b, now))
                 /\ last' = Answer("save-draft", DraftRequired(b), 200,
                                   <<"status", "saved">>)
            ELSE /\ last' = Answer("save-draft", DraftRequired(b), 500,
                                   <<"error", "Failed to save draft">>)
                 /\ UNCHANGED final_drafts
    /\ UNCHANGED <<conversations, participants, messages, survey_responses,
                   demographics, reqs, now, latest>>

\* ------------------------------------------------------------------ clock

Tick ==
    /\ now < MaxClock
    /\ now' = now + 1
    /\ UNCHANGED <<conversations, tables, reqs, last, latest>>

\* ------------------------------------------------------------------ specs

Init ==
    /\ conversations = [k \in Keys |-> <<>>]
    /\ participants = {}
    /\ messages = <<>>
    /\ survey_responses = <<>>
    /\ demographics = {}
    /\ final_drafts = <<>>
    /\ reqs = <<>>
    /\ now = 0
    /\ last = NoRequest
    /\ latest = [p \in Users |-> {}]

\* All four endpoints, the clock standing still.
Next ==
    \/ \E b \in ChatBodies : Chat(MaxLoad, b)
    \/ \E i \in DOMAIN reqs, ok \in BOOLEAN : ChatFetch(i, ok)
    \/ \E i \in DOMAIN reqs, data \in GatewayData, db \in DbOutcomes : ChatJson(i, data, db)
    \/ \E b \in DemographicsBodies : Demographics(MaxLoad, b)
    \/ \E b \in SurveyBodies : SurveyResponse(MaxLoad, b)
    \/ \E b \in DraftBodies, stored \in BOOLEAN : SaveDraft(MaxLoad, b, stored)

Spec == Init /\ [][Next]_vars

\* /chat and the clock.
NextTimed ==
    \/ \E b \in ChatBodies : Chat(MaxTimedChats, b)
    \/ \E i \in DOMAIN reqs, ok \in BOOLEAN : ChatFetch(i, ok)
    \/ \E i \in DOMAIN reqs, data \in GatewayData, db \in DbOutcomes : ChatJson(i, data, db)
    \/ Tick

SpecTimed == Init /\ [][NextTimed]_vars

\* /chat alone, more requests, the clock standing still.
NextChat ==
    \/ \E b \in ChatBodies : Chat(MaxChats, b)
    \/ \E i \in DOMAIN reqs, ok \in BOOLEAN : ChatFetch(i, ok)
    \/ \E i \in DOMAIN reqs, data \in GatewayData, db \in DbOutcomes : ChatJson(i, data, db)

SpecChat == Init /\ [][NextChat]_vars

\* The three synchronous endpoints and the clock.
NextForms ==
    \/ \E b \in DemographicsBodies : Demographics(MaxForms, b)
    \/ \E b \in SurveyBodies : SurveyResponse(MaxForms, b)
    \/ \E b \in DraftBodies, stored \in BOOLEAN : SaveDraft(MaxForms, b, stored)
    \/ Tick

SpecForms == Init /\ [][NextForms]_vars

\* ------------------------------------------------------------ properties

KeyOf(r) == <<r.userId, r.scenario>>

\* No /chat request is between its first step and its answer.
Quiescent == \A i \in DOMAIN reqs : reqs[i].pc = "done"

InProgress(i) == reqs[i].pc \in {"await-fetch", "await-json"}

\* Positions in the conversation of key k of the turns with the given role
\* that exchange i appended.
TurnsOf(k, i, role) ==
    {n \in DOMAIN conversations[k] :
        conversations[k][n].ex = i /\ conversations[k][n].role = role}

\* Positions in messages of the rows with the given role that exchange i wrote.
RowsOf(i, role) ==
    {n \in DOMAIN messages : messages[n].ex = i /\ messages[n].role = role}

IsPrefix(s, t) == Len(s) <= Len(t) /\ \A n \in DOMAIN s : s[n] = t[n]

\* C1, as stated: whenever no /chat request is in progress, every conversation
\* is a system turn followed by (user, assistant) pairs, each pair the two
\* turns of one exchange.
C1_Paired ==
    Quiescent =>
        \A k \in Keys :
            LET c == conversations[k] IN
            c # <<>> =>
                /\ c[1].role = "system"
                /\ \A n \in 2..Len(c) : c[n].role # "system"
                /\ (Len(c) - 1) % 2 = 0
                /\ \A n \in 2..Len(c) :
                      n % 2 = 0 =>
                          /\ c[n].role = "user"
                          /\ c[n + 1].role = "assistant"
                          /\ c[n + 1].ex = c[n].ex

\* C1, amended: every conversation starts with the system turn of its
\* scenario and holds no other system turn; each later turn is the user or the
\* assistant turn of an exchange on that key; an exchange has exactly one user
\* turn, at most one assistant turn, which comes after its user turn (not
\* necessarily next to it) and only once the gateway has delivered a message.
C1_SystemFirstUserBeforeAssistant ==
    /\ \A k \in Keys :
          LET c == conversations[k] IN
          c # <<>> =>
              /\ c[1] = [role |-> "system", content |-> <<"system-template", k[2]>>, ex |-> 0]
              /\ \A n \in 2..Len(c) :
                    /\ c[n].role \in {"user", "assistant"}
                    /\ c[n].ex \in DOMAIN reqs
                    /\ KeyOf(reqs[c[n].ex]) = k
    /\ \A i \in DOMAIN reqs :
          LET k == KeyOf(reqs[i]) IN
          /\ Cardinality(TurnsOf(k, i, "user")) = 1
          /\ Cardinality(TurnsOf(k, i, "assistant")) <= 1
          /\ \A a \in TurnsOf(k, i, "assistant") :
                /\ \A u \in TurnsOf(k, i, "user") : u < a
                /\ reqs[i].gateway \in {"reply", "no-content"}

\* C1 witness: all requests answered, and a conversation in which a user turn
\* is followed by another exchange's turn although both exchanges got a reply.
C1_Witness ==
    /\ Quiescent
    /\ \E k \in Keys :
          \E n \in 2..(Len(conversations[k]) - 1) :
              LET c == conversations[k] IN
              /\ c[n].role = "user"
              /\ c[n + 1].ex # c[n].ex
              /\ reqs[c[n].ex].status = 200
              /\ reqs[c[n + 1].ex].status = 200

\* A row of messages that mirrors the turn at position n of conversation k.
HasRow(k, n) ==
    \E m \in DOMAIN messages :
        /\ messages[m].participant_id = k[1]
        /\ messages[m].scenario = k[2]
        /\ messages[m].role = conversations[k][n].role
        /\ messages[m].ex = conversations[k][n].ex

\* C2, as stated: whenever no /chat request is in progress, every user and
\* assistant turn of every conversation has a messages row with the same
\* participant, scenario and role, of the same exchange.
C2_EveryTurnAudited ==
    Quiescent =>
        \A k \in Keys : \A n \in 2..Len(conversations[k]) : HasRow(k, n)

\* C2, amended: whenever no /chat request is in progress, every user and
\* assistant turn of an exchange that was answered with {reply} has such a
\* row; the turns of an exchange answered 500 may have none.
C2_AnsweredTurnsAudited ==
    Quiescent =>
        \A k \in Keys : \A n \in 2..Len(conversations[k]) :
            reqs[conversations[k][n].ex].status = 200 => HasRow(k, n)

\* C2 witness: nothing in progress, one exchange answered {reply} and another
\* answered 500.
C2_Witness ==
    /\ Quiescent
    /\ \E i, j \in DOMAIN reqs : reqs[i].status = 200 /\ reqs[j].status = 500

\* C3, as stated: a request whose gateway call failed (no response, or a
\* response without message.content) has written no row, appended no assistant
\* turn, left its user turn in place and answered 500 {error: "Chat failed"}.
C3_FailedGatewayLeavesNoTrace ==
    \A i \in DOMAIN reqs :
        reqs[i].gateway \in {"failed", "no-content"} =>
            /\ RowsOf(i, "user") \cup RowsOf(i, "assistant") = {}
            /\ TurnsOf(KeyOf(reqs[i]), i, "assistant") = {}
            /\ TurnsOf(KeyOf(reqs[i]), i, "user") # {}
            /\ reqs[i].status = 500
            /\ reqs[i].body = <<"error", "Chat failed">>

\* C4: a request answered with {reply} has appended exactly one user turn and
\* exactly one assistant turn, holding the reply, to the conversation of its
\* key and to no other, and has written exactly two rows, one per role, for
\* its key, with one timestamp, read no earlier than the gateway's return.
C4_ReplyMeansOnePairAndTwoRows ==
    \A i \in DOMAIN reqs :
        reqs[i].status = 200 =>
            LET k == KeyOf(reqs[i]) IN
            /\ reqs[i].body[1] = "reply"
            /\ Cardinality(TurnsOf(k, i, "user")) = 1
            /\ Cardinality(TurnsOf(k, i, "assistant")) = 1
            /\ \A a \in TurnsOf(k, i, "assistant") :
                  conversations[k][a].content = <<reqs[i].body[2]>>
            /\ \A k2 \in Keys \ {k} :
                  TurnsOf(k2, i, "user") \cup TurnsOf(k2, i, "assistant") = {}
            /\ Cardinality(RowsOf(i, "user")) = 1
            /\ Cardinality(RowsOf(i, "assistant")) = 1
            /\ \A m \in RowsOf(i, "user") \cup RowsOf(i, "assistant") :
                  /\ messages[m].participant_id = reqs[i].userId
                  /\ messages[m].scenario = reqs[i].scenario
                  /\ messages[m].timestamp >= reqs[i].tReturned
                  /\ \A m2 \in RowsOf(i, "user") \cup RowsOf(i, "assistant") :
                        messages[m2].timestamp = messages[m].timestamp

\* C4 witness: a request answered with {reply} whose rows carry a later time
\* than the one at which the gateway returned.
C4_Witness ==
    \E i \in DOMAIN reqs :
        /\ reqs[i].status = 200
        /\ reqs[i].gateway = "reply"
        /\ \E m \in RowsOf(i, "assistant") : messages[m].timestamp > reqs[i].tReturned

\* C5, as stated: every participant id of an accepted /demographics or
\* /survey-response request has exactly one record in participants.
C5_ParticipantRecorded ==
    \A p \in Users :
        (\/ \E x \in demographics : x.participant_id = p
         \/ \E n \in DOMAIN survey_responses : survey_responses[n].participant_id = p)
            => Cardinality({x \in participants : x.participant_id = p}) = 1

\* C6: a step that handles a request lacking a required field (absent or
\* empty) answers 400 with an error body and changes none of the five tables.
C6_MissingFieldRejected ==
    [][last'.lacking =>
          /\ last'.status = 400
          /\ last'.body[1] = "error"
          /\ tables' = tables]_vars

\* C6 witness: a rejected request in a state whose tables hold rows.
C6_Witness ==
    /\ last.lacking
    /\ last.status = 400
    /\ demographics # {} \/ messages # <<>> \/ survey_responses # <<>> \/ final_drafts # <<>>

\* The value stored for a submitted attribute: NULL when it was absent.
Stored(v) == IF v = Undefined THEN Null ELSE v

\* C7: demographics holds exactly one row per participant id accepted so far
\* and none for any other id, and the row's four attributes are those of the
\* latest accepted submission, NULL where that submission had none.
C7_LatestSubmissionStored ==
    /\ \A x \in demographics : x.participant_id \in Users
    /\ \A p \in Users :
          LET rows == {x \in demographics : x.participant_id = p} IN
          /\ latest[p] = {} => rows = {}
          /\ \A l \in latest[p] :
                /\ Cardinality(rows) = 1
                /\ \A x \in rows :
                      /\ x.native_language = Stored(l.body.native_language)
                      /\ x.english_proficiency = Stored(l.body.english_proficiency)
                      /\ x.years_in_us = Stored(l.body.years_in_us)
                      /\ x.ai_usage_frequency = Stored(l.body.ai_usage_frequency)

\* C7 witness: a participant whose latest submission replaced an earlier one
\* and came without native_language, while another participant has a row too.
C7_Witness ==
    \E p, q \in Users :
        /\ p # q
        /\ latest[q] # {}
        /\ \E l \in latest[p] : l.replaced /\ l.body.native_language = Undefined
        /\ \E x \in demographics : x.participant_id = p /\ x.native_language = Null

\* C8: in every step, a conversation that exists keeps all its turns, in
\* place; a step only appends.
C8_ConversationsOnlyGrow ==
    [][\A k \in Keys :
          conversations[k] # <<>> => IsPrefix(conversations[k], conversations'[k])]_vars

\* C8 witness: two requests for one key, both still in progress, the second
\* of which arrived when the first had just created the conversation.
C8_Witness ==
    \E i, j \in DOMAIN reqs :
        /\ i < j
        /\ KeyOf(reqs[i]) = KeyOf(reqs[j])
        /\ InProgress(i) /\ InProgress(j)
        /\ Len(conversations[KeyOf(reqs[i])]) = 3

\* C9, as stated: two requests for one key are never in progress together.
C9_NoOverlapOnKey ==
    \A i, j \in DOMAIN reqs :
        (i # j /\ KeyOf(reqs[i]) = KeyOf(reqs[j])) => ~(InProgress(i) /\ InProgress(j))

\* C9, amended: a handler gives way only at its two awaits.  What it does
\* before the first (create the conversation, append the user turn) and after
\* the second (append the assistant turn, write the rows, answer) is never
\* seen half done: a request in progress has its user turn and nothing else; an
\* assistant turn or a row belongs to a request that has answered.
C9_OnlyAwaitsInterleave ==
    \A i \in DOMAIN reqs :
        LET k == KeyOf(reqs[i]) IN
        /\ conversations[k] # <<>>
        /\ TurnsOf(k, i, "user") # {}
        /\ InProgress(i) =>
              /\ TurnsOf(k, i, "assistant") = {}
              /\ RowsOf(i, "user") \cup RowsOf(i, "assistant") = {}
              /\ reqs[i].status = 0
        /\ ~InProgress(i) =>
              /\ reqs[i].pc = "done"
              /\ reqs[i].status \in {200, 500}

\* C9 witness: two requests for one key in progress together, one at each await.
C9_Witness ==
    \E i, j \in DOMAIN reqs :
        /\ KeyOf(reqs[i]) = KeyOf(reqs[j])
        /\ reqs[i].pc = "await-json"
        /\ reqs[j].pc = "await-fetch"

\* C10: unless an INSERT has failed, messages is a sequence of two-row blocks,
\* a user row and then the assistant row of the same exchange, with the same
\* participant, scenario and timestamp.
C10_RowsInAdjacentPairs ==
    (\A i \in DOMAIN reqs : ~reqs[i].dbError) =>
        /\ Len(messages) % 2 = 0
        /\ \A n \in DOMAIN messages :
              n % 2 = 1 =>
                  /\ messages[n].role = "user"
                  /\ messages[n + 1].role = "assistant"
                  /\ messages[n + 1].ex = messages[n].ex
                  /\ messages[n + 1].participant_id = messages[n].participant_id
                  /\ messages[n + 1].scenario = messages[n].scenario
                  /\ messages[n + 1].timestamp = messages[n].timestamp

\* C10 witness: two requests that overlapped (the later one answered first)
\* have both written their rows, and no INSERT has failed.
C10_Witness ==
    /\ \A i \in DOMAIN reqs : ~reqs[i].dbError
    /\ \E i, j \in DOMAIN reqs :
          /\ i < j
          /\ \E m \in RowsOf(i, "user") : \E m2 \in RowsOf(j, "assistant") : m2 < m

====
